---- MODULE Spec2Model ----
(***************************************************************************)
(* Model of the VLM agent step of OmniParser's omnitool                    *)
(* (src/omnitool/gradio/agent/vlm_agent.py): extraction of the JSON        *)
(* payload from the model's response text, its repair and parse, the       *)
(* dispatch on "Next Action", and the trimming of the message history.     *)
(*                                                                         *)
(* A Python str is a sequence of one-character strings.  A JSON value is   *)
(* a tagged tuple: <<"str", chars>>, <<"int", n>>, <<"arr", seq>>,         *)
(* <<"obj", f>> with f a function from keys (character sequences) to       *)
(* values, as json.loads builds a dict.                                    *)
(***************************************************************************)
EXTENDS Integers, Sequences, FiniteSets, TLC

VARIABLES
    messages,            \* the caller-owned history passed to __call__
    images_to_keep,      \* only_n_most_recent_images (None or an int)
    messages_before,     \* the history as it was before the last operation
    step_count,          \* VLMAgent.step_count
    parsed_screen,       \* the parsed screen of the step
    vlm_response,        \* the response text of the provider
    extracted,           \* the result of extract_data (line 217)
    directive,           \* the directive produced by the repair stage (line 282)
    vlm_response_json,   \* the directive after the Box ID lookup (line 303)
    parse_calls,         \* the number of json.loads calls of the step
    used_default,        \* the default response was substituted
    response_content,    \* the content of the response message
    outcome,             \* how the operation ended: status and exception type
    img_shown,           \* the image handed to output_callback (line 304)
    pc,                  \* the position of the caller
    environ,             \* os.environ on the four proxy variables
    environ_before,      \* os.environ before the first adapter call
    lock,                \* the _lock of each ProxyManager: Free or its holder
    callers,             \* the concurrent callers of the gemini adapter
    oai_result,          \* what the call of run_oai_interleaved came to
    analysis             \* the dict returned by analyze_json_parsing_issues

agentVars == <<messages, images_to_keep, messages_before, step_count, parsed_screen,
               vlm_response, extracted, directive, vlm_response_json, parse_calls,
               used_default, response_content, outcome, img_shown, pc>>

providerVars == <<environ, environ_before, lock, callers, oai_result>>

debugVars == <<analysis>>

vars == <<agentVars, providerVars, debugVars>>

----------------------------------------------------------------------------
\* Python str primitives

Min(S) == CHOOSE x \in S : \A y \in S : x <= y

Max(S) == CHOOSE x \in S : \A y \in S : y <= x

Whitespace == {" ", "\n", "\t"}

\* s[a:b] with 1-based inclusive bounds; empty when a > b
Slice(s, a, b) == [k \in 1..(IF b >= a THEN b - a + 1 ELSE 0) |-> s[a + k - 1]]

\* the index of the first non-whitespace character at or after i, Len(s)+1 if none
RECURSIVE SkipWs(_, _)
SkipWs(s, i) == IF i > Len(s) \/ s[i] \notin Whitespace THEN i ELSE SkipWs(s, i + 1)

\* the index of the last non-whitespace character at or before i, 0 if none
RECURSIVE LastNonWs(_, _)
LastNonWs(s, i) == IF i = 0 \/ s[i] \notin Whitespace THEN i ELSE LastNonWs(s, i - 1)

strip(s) == Slice(s, SkipWs(s, 1), LastNonWs(s, Len(s)))

isspace(s) == Len(s) > 0 /\ \A k \in 1..Len(s) : s[k] \in Whitespace

Lower(c) ==
    CASE c = "J" -> "j"
      [] c = "S" -> "s"
      [] c = "O" -> "o"
      [] c = "N" -> "n"
      [] OTHER -> c

\* the literal lit occurs in s at index i (re.IGNORECASE when ci)
HasAt(s, i, lit, ci) ==
    /\ i >= 1
    /\ i + Len(lit) - 1 <= Len(s)
    /\ \A k \in 1..Len(lit) :
         IF ci THEN Lower(s[i + k - 1]) = Lower(lit[k]) ELSE s[i + k - 1] = lit[k]

startswith(s, lit) == HasAt(s, 1, lit, FALSE)

endswith(s, lit) == HasAt(s, Len(s) - Len(lit) + 1, lit, FALSE)

\* the first index at or after i where lit occurs, Len(s)+1 if none
FindLit(s, i, lit, ci) ==
    LET S == {j \in i..Len(s) : HasAt(s, j, lit, ci)}
    IN  IF S = {} THEN Len(s) + 1 ELSE Min(S)

\* the first index at or after i that holds a character of C, Len(s)+1 if none
FindChar(s, i, C) ==
    LET S == {j \in i..Len(s) : s[j] \in C}
    IN  IF S = {} THEN Len(s) + 1 ELSE Min(S)

\* the last index at or before i that holds a character of C, 0 if none
FindCharBack(s, i, C) ==
    LET S == {j \in 1..i : s[j] \in C}
    IN  IF S = {} THEN 0 ELSE Max(S)

\* the backquote character (written as a name: the lexer reserves the character)
BQ == "bq"

Fence == <<BQ, BQ, BQ>>

JsonType == <<"j", "s", "o", "n">>

----------------------------------------------------------------------------
\* extract_data: each pattern yields the group of its first match

NoMatch == [ok |-> FALSE, text |-> <<>>]

Found(t) == [ok |-> TRUE, text |-> t]

\* LabeledClosedAt matching the label without re.IGNORECASE
LabeledClosedAt_CaseSensitive(s, dt, i) ==
    LET p == SkipWs(s, i + 3 + Len(dt))
        f == FindLit(s, p, Fence, TRUE)
    IN  IF HasAt(s, i, Fence \o dt, FALSE) /\ f <= Len(s)
        THEN Found(Slice(s, p, IF f = p THEN p - 1 ELSE LastNonWs(s, f - 1)))
        ELSE NoMatch

\* patterns[0], the labelled fence with a closing fence, matched at index i:
\* the group runs from the first non-whitespace character after the label to
\* the last non-whitespace character before the next fence
LabeledClosedAt(s, dt, i) ==
    LET p == SkipWs(s, i + 3 + Len(dt))
        f == FindLit(s, p, Fence, TRUE)
    IN  IF HasAt(s, i, Fence \o dt, TRUE) /\ f <= Len(s)
        THEN Found(Slice(s, p, IF f = p THEN p - 1 ELSE LastNonWs(s, f - 1)))
        ELSE NoMatch

\* the first index at or after i of a closing brace that only whitespace
\* separates from a fence, Len(s)+1 if none
ClosingBraceBeforeFence(s, i) ==
    LET S == {j \in i..Len(s) : s[j] = "}" /\ HasAt(s, SkipWs(s, j + 1), Fence, TRUE)}
    IN  IF S = {} THEN Len(s) + 1 ELSE Min(S)

\* patterns[1], the unlabelled fence holding an object, matched at index i
UnlabeledAt(s, i) ==
    LET p == SkipWs(s, i + 3)
        q == ClosingBraceBeforeFence(s, p + 1)
    IN  IF HasAt(s, i, Fence, TRUE) /\ p <= Len(s) /\ s[p] = "{" /\ q <= Len(s)
        THEN Found(Slice(s, p, q))
        ELSE NoMatch

\* patterns[2], the labelled fence without closing fence, matched at index i;
\* the dollar anchor is the end of the text or the position before a final newline
LabeledOpenAt(s, dt, i) ==
    LET p == SkipWs(s, i + 3 + Len(dt))
        q == IF p <= Len(s) /\ s[Len(s)] = "\n" THEN Len(s) - 1 ELSE Len(s)
    IN  IF HasAt(s, i, Fence \o dt, TRUE)
        THEN Found(Slice(s, p, q))
        ELSE NoMatch

\* index of the first brace at or after i, Len(s)+1 if none
NextBrace(s, i) == FindChar(s, i, {"{", "}"})

\* the tail of patterns[3] from the brace at index b (inner objects one level
\* deep, then the closing brace): the index of the closing brace, 0 if no match
RECURSIVE BraceTail(_, _)
BraceTail(s, b) ==
    IF b > Len(s) THEN 0
    ELSE IF s[b] = "}" THEN b
    ELSE LET c == NextBrace(s, b + 1)
         IN  IF c > Len(s) \/ s[c] = "{" THEN 0
             ELSE BraceTail(s, NextBrace(s, c + 1))

\* patterns[3], the bare brace object, matched at index i
BareObjectAt(s, i) ==
    LET e == IF s[i] = "{" THEN BraceTail(s, NextBrace(s, i + 1)) ELSE 0
    IN  IF e > 0 THEN Found(Slice(s, i, e)) ELSE NoMatch

\* matches[0] of re.findall(patterns[n], input_string, re.DOTALL | re.IGNORECASE)
PatternAt(n, s, dt, i) ==
    CASE n = 1 -> LabeledClosedAt(s, dt, i)
      [] n = 2 -> UnlabeledAt(s, i)
      [] n = 3 -> LabeledOpenAt(s, dt, i)
      [] n = 4 -> BareObjectAt(s, i)

\* the leftmost match of patterns[n]
FirstMatch(n, s, dt) ==
    LET I == {i \in 1..Len(s) : PatternAt(n, s, dt, i).ok}
    IN  IF I = {} THEN NoMatch ELSE PatternAt(n, s, dt, Min(I))

\* the brace-depth scan from the first { : the index where the depth returns
\* to 0, or 0 when it never does
RECURSIVE BraceScan(_, _, _)
BraceScan(s, i, brace_count) ==
    IF i > Len(s) THEN 0
    ELSE IF s[i] = "{" THEN BraceScan(s, NextBrace(s, i + 1), brace_count + 1)
    ELSE IF brace_count - 1 = 0 THEN i
    ELSE BraceScan(s, NextBrace(s, i + 1), brace_count - 1)

\* BraceFallback returning the input as it came where no object is found
BraceFallback_NoStrip(s) ==
    LET json_start == FindChar(s, 1, {"{"})
        e == IF json_start > Len(s) THEN 0 ELSE BraceScan(s, json_start, 0)
    IN  IF e > 0 THEN strip(Slice(s, json_start, e)) ELSE s

\* lines 52-64: the first balanced object by brace depth, else the whole input
BraceFallback(s) ==
    LET json_start == FindChar(s, 1, {"{"})
        e == IF json_start > Len(s) THEN 0 ELSE BraceScan(s, json_start, 0)
    IN  IF e > 0 THEN strip(Slice(s, json_start, e)) ELSE strip(s)

\* FirstPattern going through the patterns from the last to the first
RECURSIVE FirstPattern_Reversed(_, _, _)
FirstPattern_Reversed(n, s, dt) ==
    IF n > 4 THEN NoMatch
    ELSE IF FirstMatch(5 - n, s, dt).ok THEN FirstMatch(5 - n, s, dt)
    ELSE FirstPattern_Reversed(n + 1, s, dt)

\* the first pattern, from index n on, that matches somewhere in s
RECURSIVE FirstPattern(_, _, _)
FirstPattern(n, s, dt) ==
    IF n > 4 THEN NoMatch
    ELSE IF FirstMatch(n, s, dt).ok THEN FirstMatch(n, s, dt)
    ELSE FirstPattern(n + 1, s, dt)

extract_data(input_string, data_type) ==
    IF Len(input_string) = 0 THEN <<>>
    ELSE IF FirstPattern(1, input_string, data_type).ok
         THEN strip(FirstPattern(1, input_string, data_type).text)
         ELSE BraceFallback(input_string)

----------------------------------------------------------------------------
\* json.loads on the characters of the text.  The inputs of the model hold
\* no backslash, no fraction and no exponent, so escapes and floats are not
\* part of the grammar below; everything else follows the decoder: strings
\* reject raw control characters, numbers reject a leading zero, a comma
\* must be followed by another member, and only whitespace may follow the
\* top-level value.

Digits == {"0", "1", "2", "3", "4", "5", "6", "7", "8", "9"}

DigitVal(c) ==
    CASE c = "0" -> 0 [] c = "1" -> 1 [] c = "2" -> 2 [] c = "3" -> 3
      [] c = "4" -> 4 [] c = "5" -> 5 [] c = "6" -> 6 [] c = "7" -> 7
      [] c = "8" -> 8 [] c = "9" -> 9

JStr(t) == <<"str", t>>

JInt(n) == <<"int", n>>

JArr(a) == <<"arr", a>>

JObj(f) == <<"obj", f>>

Fail == [ok |-> FALSE, val |-> JInt(0), next |-> 0]

Parsed(v, n) == [ok |-> TRUE, val |-> v, next |-> n]

\* the string that opens with the quote at index i; a raw control character
\* before the closing quote is an error
ParseString(s, i) ==
    LET e == FindChar(s, i + 1, {"\"", "\n", "\t"})
    IN  IF e > Len(s) \/ s[e] # "\"" THEN Fail
        ELSE Parsed(JStr(Slice(s, i + 1, e - 1)), e + 1)

RECURSIVE DigitsValue(_, _, _)
DigitsValue(s, a, b) ==
    IF b < a THEN 0 ELSE 10 * DigitsValue(s, a, b - 1) + DigitVal(s[b])

\* the last index of the run of digits that starts at index d
RECURSIVE DigitRunEnd(_, _)
DigitRunEnd(s, d) ==
    IF d + 1 > Len(s) \/ s[d + 1] \notin Digits THEN d ELSE DigitRunEnd(s, d + 1)

\* the integer at index i: an optional minus, then 0 or a run of digits
\* that does not start with 0
ParseNumber(s, i) ==
    LET d == IF s[i] = "-" THEN i + 1 ELSE i
        e == IF s[d] = "0" THEN d ELSE DigitRunEnd(s, d)
        n == DigitsValue(s, d, e)
    IN  IF d > Len(s) \/ s[d] \notin Digits THEN Fail
        ELSE Parsed(JInt(IF s[i] = "-" THEN 0 - n ELSE n), e + 1)

RECURSIVE ParseValue(_, _), ParseMembers(_, _, _), ParseElements(_, _, _)

ParseValue(s, i) ==
    IF i > Len(s) THEN Fail
    ELSE IF s[i] = "\"" THEN ParseString(s, i)
    ELSE IF s[i] = "{" THEN
         (LET j == SkipWs(s, i + 1)
          IN  IF j <= Len(s) /\ s[j] = "}" THEN Parsed(JObj(<<>>), j + 1)
              ELSE ParseMembers(s, j, <<>>))
    ELSE IF s[i] = "[" THEN
         (LET j == SkipWs(s, i + 1)
          IN  IF j <= Len(s) /\ s[j] = "]" THEN Parsed(JArr(<<>>), j + 1)
              ELSE ParseElements(s, j, <<>>))
    ELSE IF s[i] \in Digits \cup {"-"} THEN ParseNumber(s, i)
    ELSE Fail

\* the members of an object from the key expected at index i; a key that
\* occurs again replaces the value (dict assignment)
ParseMembers(s, i, acc) ==
    IF i > Len(s) \/ s[i] # "\"" THEN Fail
    ELSE LET k == ParseString(s, i)
             c == SkipWs(s, k.next)
             v == ParseValue(s, SkipWs(s, c + 1))
             d == SkipWs(s, v.next)
             new == (k.val[2] :> v.val) @@ acc
         IN  IF ~k.ok THEN Fail
             ELSE IF c > Len(s) \/ s[c] # ":" THEN Fail
             ELSE IF ~v.ok THEN Fail
             ELSE IF d > Len(s) THEN Fail
             ELSE IF s[d] = "}" THEN Parsed(JObj(new), d + 1)
             ELSE IF s[d] = "," THEN ParseMembers(s, SkipWs(s, d + 1), new)
             ELSE Fail

ParseElements(s, i, acc) ==
    LET v == ParseValue(s, i)
        d == SkipWs(s, v.next)
    IN  IF ~v.ok THEN Fail
        ELSE IF d > Len(s) THEN Fail
        ELSE IF s[d] = "]" THEN Parsed(JArr(Append(acc, v.val)), d + 1)
        ELSE IF s[d] = "," THEN ParseElements(s, SkipWs(s, d + 1), Append(acc, v.val))
        ELSE Fail

\* json.loads(s): ok is FALSE where the decoder raises JSONDecodeError
json_loads(s) ==
    LET v == ParseValue(s, SkipWs(s, 1))
    IN  IF v.ok /\ SkipWs(s, v.next) = Len(s) + 1 THEN v ELSE Fail

----------------------------------------------------------------------------
\* The repair stage of VLMAgent.__call__: fence stripping, comma removal,
\* the two parse attempts and the default response.

KeyReasoning ==
    <<"R", "e", "a", "s", "o", "n", "i", "n", "g">>

KeyNextAction ==
    <<"N", "e", "x", "t", " ", "A", "c", "t", "i", "o", "n">>

KeyBoxID ==
    <<"B", "o", "x", " ", "I", "D">>

KeyValue ==
    <<"v", "a", "l", "u", "e">>

KeyCoordinate ==
    <<"b", "o", "x", "_", "c", "e", "n", "t", "r", "o", "i", "d", "_", "c",
      "o", "o", "r", "d", "i", "n", "a", "t", "e">>

StrNone ==
    <<"N", "o", "n", "e">>

StrLeftClick ==
    <<"l", "e", "f", "t", "_", "c", "l", "i", "c", "k">>

StrType ==
    <<"t", "y", "p", "e">>

StrScreenshot ==
    <<"s", "c", "r", "e", "e", "n", "s", "h", "o", "t">>

ReasonNoStart ==
    <<"R", "e", "s", "p", "o", "n", "s", "e", " ", "d", "o", "e", "s", "n",
      "'", "t", " ", "s", "t", "a", "r", "t", " ", "w", "i", "t", "h", " ",
      "'", "{", "'">>

ReasonNoEnd ==
    <<"R", "e", "s", "p", "o", "n", "s", "e", " ", "d", "o", "e", "s", "n",
      "'", "t", " ", "e", "n", "d", " ", "w", "i", "t", "h", " ", "'", "}",
      "'">>

ReasonSyntax ==
    <<"I", "n", "v", "a", "l", "i", "d", " ", "J", "S", "O", "N", " ", "s",
      "y", "n", "t", "a", "x">>

ReasonEmpty ==
    <<"E", "m", "p", "t", "y", " ", "r", "e", "s", "p", "o", "n", "s", "e">>

EmptyReasoning ==
    <<"E", "m", "p", "t", "y", " ", "r", "e", "s", "p", "o", "n", "s", "e",
      " ", "r", "e", "c", "e", "i", "v", "e", "d", ",", " ", "t", "a", "k",
      "i", "n", "g", " ", "s", "c", "r", "e", "e", "n", "s", "h", "o", "t",
      " ", "t", "o", " ", "a", "s", "s", "e", "s", "s", " ", "c", "u", "r",
      "r", "e", "n", "t", " ", "s", "t", "a", "t", "e">>

FailedPrefix ==
    <<"J", "S", "O", "N", " ", "p", "a", "r", "s", "i", "n", "g", " ", "f",
      "a", "i", "l", "e", "d", " ", "(">>

FailedSuffix ==
    <<")", ",", " ", "t", "a", "k", "i", "n", "g", " ", "s", "c", "r", "e",
      "e", "n", "s", "h", "o", "t", " ", "t", "o", " ", "a", "s", "s", "e",
      "s", "s", " ", "c", "u", "r", "r", "e", "n", "t", " ", "s", "t", "a",
      "t", "e">>


\* s without the characters at the indices in D
RECURSIVE Drop(_, _)
Drop(s, D) ==
    IF D = {} THEN s
    ELSE Drop(Slice(s, 1, Max(D) - 1) \o Slice(s, Max(D) + 1, Len(s)), D \ {Max(D)})

\* re.sub of a comma, whitespace and one of the closers by the whitespace and
\* the closer: every comma whose next non-whitespace character is a closer goes
RemoveTrailingCommas(s, closers) ==
    LET D == {i \in 1..Len(s) :
                /\ s[i] = ","
                /\ SkipWs(s, i + 1) <= Len(s)
                /\ s[SkipWs(s, i + 1)] \in closers}
    IN  Drop(s, D)

\* re.sub keeping the span from the first { to the last } when the text has one
OuterBraceSpan(s) ==
    LET a == FindChar(s, 1, {"{"})
        b == FindCharBack(s, Len(s), {"}"})
    IN  IF a < b THEN Slice(s, a, b) ELSE s

\* lines 222-236: the candidate after stripping and comma removal
CleanCandidate(candidate) ==
    LET c0 == strip(candidate)
        c1 == IF startswith(c0, Fence \o JsonType) THEN Slice(c0, 8, Len(c0)) ELSE c0
        c2 == IF startswith(c1, Fence) THEN Slice(c1, 4, Len(c1)) ELSE c1
        c3 == IF endswith(c2, Fence) THEN Slice(c2, 1, Len(c2) - 3) ELSE c2
    IN  RemoveTrailingCommas(strip(c3), {"}", "]"})

\* lines 255-260: the text given to the second parse attempt
SecondCleanup(s) == OuterBraceSpan(RemoveTrailingCommas(s, {"}"}))

error_reason(s) ==
    IF Len(s) = 0 THEN ReasonEmpty
    ELSE IF ~startswith(strip(s), <<"{">>) THEN ReasonNoStart
    ELSE IF ~endswith(strip(s), <<"}">>) THEN ReasonNoEnd
    ELSE ReasonSyntax

DefaultResponse(reasoning) ==
    JObj((KeyReasoning :> JStr(reasoning)) @@ (KeyNextAction :> JStr(StrScreenshot)))

\* RepairAndParse without the test for an empty candidate
RepairAndParse_ParsesEmpty(candidate) ==
    LET s == CleanCandidate(candidate)
        first == json_loads(s)
        second == json_loads(SecondCleanup(s))
    IN  IF first.ok
        THEN [json |-> first.val, calls |-> 1, default |-> FALSE]
        ELSE IF second.ok
        THEN [json |-> second.val, calls |-> 2, default |-> FALSE]
        ELSE [json |-> DefaultResponse(FailedPrefix \o error_reason(s) \o FailedSuffix),
              calls |-> 2, default |-> TRUE]

\* lines 238-282: the directive, the number of json.loads calls made, and
\* whether the default response was substituted
RepairAndParse(candidate) ==
    LET s == CleanCandidate(candidate)
        first == json_loads(s)
        second == json_loads(SecondCleanup(s))
    IN  IF Len(s) = 0 \/ isspace(s)
        THEN [json |-> DefaultResponse(EmptyReasoning), calls |-> 0, default |-> TRUE]
        ELSE IF first.ok
        THEN [json |-> first.val, calls |-> 1, default |-> FALSE]
        ELSE IF second.ok
        THEN [json |-> second.val, calls |-> 2, default |-> FALSE]
        ELSE [json |-> DefaultResponse(FailedPrefix \o error_reason(s) \o FailedSuffix),
              calls |-> 2, default |-> TRUE]

----------------------------------------------------------------------------
\* The message history.  A message is [content_is_list, content]: content is
\* the sequence of its items (one str item when the content is a bare str).
\* An item is [kind, id, image, som, content_is_str, content]: kind "str" is an
\* str item (image: it is an image path; som: it contains 'som'), kind
\* "tool_result" a dict of that type whose content is a list of entries or a
\* str (its characters), kind "block" any other object.  An entry is
\* [type, id] with type "image", "text" or "char".

StrItem(id, image, som) ==
    [kind |-> "str", id |-> id, image |-> image, som |-> som,
     content_is_str |-> FALSE, content |-> <<>>]

BlockItem(id) ==
    [kind |-> "block", id |-> id, image |-> FALSE, som |-> FALSE,
     content_is_str |-> FALSE, content |-> <<>>]

ToolResult(id, is_str, entries) ==
    [kind |-> "tool_result", id |-> id, image |-> FALSE, som |-> FALSE,
     content_is_str |-> is_str, content |-> entries]

Message(is_list, items) == [content_is_list |-> is_list, content |-> items]

\* utils.is_image_path on an str item: the path ends with an image extension
is_image_path(cnt) == cnt.image

RECURSIVE SumSeq(_)
SumSeq(q) == IF q = <<>> THEN 0 ELSE Head(q) + SumSeq(Tail(q))

\* lines 495-503: the images one content item stands for
ItemImages(cnt) ==
    IF cnt.kind = "str" THEN (IF is_image_path(cnt) THEN 1 ELSE 0)
    ELSE IF cnt.kind = "tool_result" THEN
         Cardinality({k \in 1..Len(cnt.content) : cnt.content[k].type = "image"})
    ELSE 0

\* iterating a bare str content yields characters, never an image
MessageImages(msg) ==
    IF msg.content_is_list
    THEN SumSeq([k \in 1..Len(msg.content) |-> ItemImages(msg.content[k])])
    ELSE 0

CountImages(msgs) == SumSeq([m \in 1..Len(msgs) |-> MessageImages(msgs[m])])

\* TrimEntries removing a nested image without counting the removal
RECURSIVE TrimEntries_NoDecrement(_, _, _)
TrimEntries_NoDecrement(entries, k, remove) ==
    IF k > Len(entries) THEN [out |-> <<>>, remove |-> remove]
    ELSE IF entries[k].type = "image" /\ remove > 0
         THEN TrimEntries_NoDecrement(entries, k + 1, remove)
         ELSE LET rest == TrimEntries_NoDecrement(entries, k + 1, remove)
              IN  [out |-> <<entries[k]>> \o rest.out, remove |-> rest.remove]

\* lines 519-526: the entries kept of one tool_result, and the removals left
RECURSIVE TrimEntries(_, _, _)
TrimEntries(entries, k, remove) ==
    IF k > Len(entries) THEN [out |-> <<>>, remove |-> remove]
    ELSE IF entries[k].type = "image" /\ remove > 0
         THEN TrimEntries(entries, k + 1, remove - 1)
         ELSE LET rest == TrimEntries(entries, k + 1, remove)
              IN  [out |-> <<entries[k]>> \o rest.out, remove |-> rest.remove]

\* lines 511-528: the items kept of one message; a tool_result gets the list
\* of its kept entries as content
RECURSIVE TrimItems(_, _, _)
TrimItems(items, k, remove) ==
    IF k > Len(items) THEN [out |-> <<>>, remove |-> remove]
    ELSE LET cnt == items[k]
         IN  IF cnt.kind = "str" /\ is_image_path(cnt) /\ remove > 0
             THEN TrimItems(items, k + 1, remove - 1)
             ELSE IF cnt.kind = "tool_result"
             THEN LET t == TrimEntries(cnt.content, 1, remove)
                      rest == TrimItems(items, k + 1, t.remove)
                  IN  [out |-> <<ToolResult(cnt.id, FALSE, t.out)>> \o rest.out,
                       remove |-> rest.remove]
             ELSE LET rest == TrimItems(items, k + 1, remove)
                  IN  [out |-> <<cnt>> \o rest.out, remove |-> rest.remove]

\* lines 507-529: the second pass over the messages
RECURSIVE TrimMessages(_, _, _)
TrimMessages(msgs, m, remove) ==
    IF m > Len(msgs) THEN <<>>
    ELSE IF msgs[m].content_is_list
         THEN LET t == TrimItems(msgs[m].content, 1, remove)
              IN  <<Message(TRUE, t.out)>> \o TrimMessages(msgs, m + 1, t.remove)
         ELSE <<msgs[m]>> \o TrimMessages(msgs, m + 1, remove)

\* Optional[int]: None is the empty sequence, n is the sequence of n
None == <<>>

Some(n) == <<n>>

_maybe_filter_to_n_most_recent_images(msgs, keep) ==
    IF keep = None THEN msgs
    ELSE TrimMessages(msgs, 1, CountImages(msgs) - keep[1])

RemoveSomFrom(msg) ==
    IF msg.content_is_list
    THEN Message(TRUE, SelectSeq(msg.content,
                   LAMBDA cnt : ~(cnt.kind = "str" /\ cnt.som /\ is_image_path(cnt))))
    ELSE msg

_remove_som_images(msgs) == [m \in 1..Len(msgs) |-> RemoveSomFrom(msgs[m])]

----------------------------------------------------------------------------
\* Lines 284-340 of VLMAgent.__call__: the Box ID lookup and the dispatch on
\* "Next Action".

StrMouseMove ==
    <<"m", "o", "u", "s", "e", "_", "m", "o", "v", "e">>

\* needle occurs in hay (the in operator on two str)
Contains(hay, needle) == \E i \in 1..(Len(hay) + 1) : HasAt(hay, i, needle, FALSE)

\* int(v): ok is FALSE where it raises ValueError or TypeError
PyInt(v) ==
    IF v[1] = "int" THEN [ok |-> TRUE, n |-> v[2]]
    ELSE IF v[1] = "str" THEN
         LET t == strip(v[2])
             d == IF Len(t) > 0 /\ t[1] \in {"-", "+"} THEN 2 ELSE 1
         IN  IF d <= Len(t) /\ \A k \in d..Len(t) : t[k] \in Digits
             THEN [ok |-> TRUE,
                   n |-> IF t[1] = "-" THEN 0 - DigitsValue(t, d, Len(t))
                         ELSE DigitsValue(t, d, Len(t))]
             ELSE [ok |-> FALSE, n |-> 0]
    ELSE [ok |-> FALSE, n |-> 0]

\* "Box ID" in vlm_response_json, for the types that support the operator
HasBoxID(json) ==
    CASE json[1] = "obj" -> KeyBoxID \in DOMAIN json[2]
      [] json[1] = "arr" -> \E k \in 1..Len(json[2]) : json[2][k] = JStr(KeyBoxID)
      [] json[1] = "str" -> Contains(json[2], KeyBoxID)
      [] OTHER -> FALSE

\* list indexing: an index from -len to len-1 is valid, a negative one counts
\* from the end
ListIndex(list, n) ==
    IF 0 <= n /\ n < Len(list) THEN [ok |-> TRUE, at |-> n + 1]
    ELSE IF n < 0 /\ 0 - n <= Len(list) THEN [ok |-> TRUE, at |-> Len(list) + n + 1]
    ELSE [ok |-> FALSE, at |-> 0]

\* box_centroid_coordinate scaling both axes by the width
box_centroid_coordinate_WidthOnly(bbox, screen_width, screen_height) ==
    JArr(<<JInt(((bbox[1] + bbox[3]) * screen_width) \div 20),
           JInt(((bbox[2] + bbox[4]) * screen_width) \div 20)>>)

\* line 288 on a bbox given in tenths of the screen
box_centroid_coordinate(bbox, screen_width, screen_height) ==
    JArr(<<JInt(((bbox[1] + bbox[3]) * screen_width) \div 20),
           JInt(((bbox[2] + bbox[4]) * screen_height) \div 20)>>)

\* lines 285-303: the directive after the lookup; every failure inside the
\* try block leaves it as it was
ResolveBox(json, screen) ==
    LET n == PyInt(json[2][KeyBoxID])
        at == ListIndex(screen.parsed_content_list, n.n)
    IN  IF json[1] = "obj" /\ HasBoxID(json) /\ n.ok /\ at.ok
        THEN JObj((KeyCoordinate :>
                     box_centroid_coordinate(screen.parsed_content_list[at.at],
                                             screen.width, screen.height))
                  @@ json[2])
        ELSE json

\* lines 284-304: the image handed to output_callback: the annotated screen
\* as it came ("som"), or with the marker drawn on it ("marked"); the in
\* operator at line 285 raises on an int before anything is shown
\* the lookup and the centroid of lines 287-288 succeed
BoxResolved(json, screen) ==
    /\ json[1] = "obj"
    /\ HasBoxID(json)
    /\ PyInt(json[2][KeyBoxID]).ok
    /\ ListIndex(screen.parsed_content_list, PyInt(json[2][KeyBoxID]).n).ok

ImageShown(json, screen) ==
    IF json[1] = "int" THEN "none"
    ELSE IF BoxResolved(json, screen) THEN "marked"
    ELSE "som"

TextBlock == [type |-> "text", input |-> <<>>]

ToolUseBlock(input) == [type |-> "tool_use", input |-> input]

Returned(content, json) ==
    [status |-> "returned", error |-> "", content |-> content, json |-> json]

Raised(error, json) ==
    [status |-> "raised", error |-> error, content |-> <<>>, json |-> json]

\* ActionBlocks reading the value with a default of the empty text
ActionBlocks_DefaultValue(d) ==
    IF KeyNextAction \notin DOMAIN d THEN [ok |-> FALSE, blocks |-> <<>>]
    ELSE IF d[KeyNextAction] = JStr(StrNone) THEN [ok |-> TRUE, blocks |-> <<>>]
    ELSE IF d[KeyNextAction] = JStr(StrType)
    THEN [ok |-> TRUE,
          blocks |-> <<ToolUseBlock(("action" :> d[KeyNextAction])
                                    @@ ("text" :> IF KeyValue \in DOMAIN d
                                                  THEN d[KeyValue] ELSE JStr(<<>>)))>>]
    ELSE [ok |-> TRUE, blocks |-> <<ToolUseBlock("action" :> d[KeyNextAction])>>]

\* lines 327-338: the tool_use blocks of the dispatch on "Next Action"; ok is
\* FALSE where a missing key raises KeyError
ActionBlocks(d) ==
    IF KeyNextAction \notin DOMAIN d THEN [ok |-> FALSE, blocks |-> <<>>]
    ELSE IF d[KeyNextAction] = JStr(StrNone) THEN [ok |-> TRUE, blocks |-> <<>>]
    ELSE IF d[KeyNextAction] = JStr(StrType)
    THEN (IF KeyValue \notin DOMAIN d THEN [ok |-> FALSE, blocks |-> <<>>]
          ELSE [ok |-> TRUE,
                blocks |-> <<ToolUseBlock(("action" :> d[KeyNextAction])
                                          @@ ("text" :> d[KeyValue]))>>])
    ELSE [ok |-> TRUE, blocks |-> <<ToolUseBlock("action" :> d[KeyNextAction])>>]

\* lines 320-325: the text block and, with a coordinate, the cursor move
LeadingBlocks(d) ==
    <<TextBlock>> \o
    (IF KeyCoordinate \in DOMAIN d
     THEN <<ToolUseBlock(("action" :> JStr(StrMouseMove))
                         @@ ("coordinate" :> d[KeyCoordinate]))>>
     ELSE <<>>)

\* lines 284-340 for the directive json and the parsed screen: the in
\* operator raises on an int, items() on everything that is not a dict
Decode(json, screen) ==
    LET resolved == ResolveBox(json, screen)
        action == ActionBlocks(resolved[2])
    IN  IF json[1] = "int" THEN Raised("TypeError", json)
        ELSE IF json[1] # "obj" THEN Raised("AttributeError", json)
        ELSE IF ~action.ok THEN Raised("KeyError", resolved)
        ELSE Returned(LeadingBlocks(resolved[2]) \o action.blocks, resolved)

----------------------------------------------------------------------------
\* The provider adapters (agent/llm_utils): run_oai_interleaved as one
\* sequential call, run_gemini_interleaved and ProxyManager.set_proxy as the
\* steps of concurrent callers on the process environment.

\* what an adapter call came to: returned (text, tokens) or raised
AdapterReturned(text, tokens) ==
    [status |-> "returned", text |-> text, tokens |-> tokens, error |-> ""]

AdapterRaised(error) ==
    [status |-> "raised", text |-> "none", tokens |-> 0, error |-> error]

NoResult == [status |-> "none", text |-> "none", tokens |-> 0, error |-> ""]

\* the requests made of run_oai_interleaved: whether the history holds an
\* image path, the model, whether encode_image can read the file, and what
\* requests.post comes to (a connection error, or a response with a status
\* code and a body)
StrO3Mini == "o3-mini"

StrGpt4o == "gpt-4o-2024-11-20"

OaiResponses ==
    [status_code : {200, 401}, body : {"not_json", "no_choices", "no_usage", "complete"},
     total_tokens : {0, 42}]

OaiRequests ==
    [has_image : BOOLEAN, model_name : {StrGpt4o, StrO3Mini}, encode_ok : BOOLEAN,
     post : {"connection_error", "response"}, response : OaiResponses]

\* lines 77-94: the handling of the response of requests.post
OaiHandleResponse(response) ==
    IF response.body = "not_json"
    THEN \* response.json() raises at line 78 and again inside the handler, line 92
         AdapterRaised("JSONDecodeError")
    ELSE IF response.status_code = 200
    THEN (IF response.body = "complete"
          THEN AdapterReturned("response", response.total_tokens)
          ELSE \* KeyError at line 82 or 83, caught at line 91
               AdapterReturned("error", 0))
    ELSE AdapterReturned("error", 0)

\* lines 7-94
run_oai_interleaved(req) ==
    IF req.has_image /\ req.model_name # StrO3Mini /\ ~req.encode_ok
    THEN AdapterRaised("OSError")
    ELSE IF req.post = "connection_error"
    THEN AdapterRaised("ConnectionError")
    ELSE OaiHandleResponse(req.response)

RunOai(req) ==
    /\ oai_result = NoResult
    /\ oai_result' = run_oai_interleaved(req)
    /\ UNCHANGED <<environ, environ_before, lock, callers>>
    /\ UNCHANGED agentVars
    /\ UNCHANGED debugVars

\* os.environ restricted to the four proxy variables, in the order of the
\* dict literals of set_proxy; Unset stands for a variable that is absent
ProxyKeys == <<"HTTP_PROXY", "HTTPS_PROXY", "http_proxy", "https_proxy">>

Unset == "<unset>"

ProxyUrl == "http://192.168.139.80:10808"

OldUrl == "http://old:1"

NoManager == 0

Free == 0

\* the requests made of _make_request: whether encode_image can read the
\* images, and whether the client call succeeds
GeminiRequests == [encode_ok : BOOLEAN, api_ok : BOOLEAN, tokens : {7}]

\* lines 132-157: every exception is caught and reported as text with 0
\* tokens; an image that cannot be encoded becomes a text part (lines 117-120)
_make_request(req) ==
    IF req.api_ok THEN AdapterReturned("response", req.tokens)
    ELSE AdapterReturned("error", 0)

\* a caller before its call: what it calls, on which manager, and how the
\* body of the scope will end
NewCaller(call, manager) ==
    [call |-> call, manager |-> manager, pc |-> "start", idx |-> 0,
     original_proxies |-> [k \in 1..4 |-> Unset],
     entry |-> [k \in 1..4 |-> Unset],
     ending |-> "none", result |-> NoResult]

\* line 21: the lock of the caller's manager is acquired
Enter(t) ==
    /\ callers[t].pc = "start"
    /\ callers[t].manager # NoManager
    /\ lock[callers[t].manager] = Free
    /\ lock' = [lock EXCEPT ![callers[t].manager] = t]
    /\ callers' = [callers EXCEPT ![t].pc = "save", ![t].idx = 1, ![t].entry = environ]
    /\ UNCHANGED <<environ, environ_before, oai_result>>
    /\ UNCHANGED agentVars
    /\ UNCHANGED debugVars

\* lines 23-28: one os.environ.get of the dict literal
Save(t) ==
    /\ callers[t].pc = "save"
    /\ callers' = [callers EXCEPT
                     ![t].original_proxies[callers[t].idx] = environ[callers[t].idx],
                     ![t].idx = IF callers[t].idx = 4 THEN 1 ELSE callers[t].idx + 1,
                     ![t].pc = IF callers[t].idx = 4 THEN "update" ELSE "save"]
    /\ UNCHANGED <<environ, environ_before, lock, oai_result>>
    /\ UNCHANGED agentVars
    /\ UNCHANGED debugVars

\* line 38: one assignment of os.environ.update
Update(t) ==
    /\ callers[t].pc = "update"
    /\ environ' = [environ EXCEPT ![callers[t].idx] = ProxyUrl]
    /\ callers' = [callers EXCEPT
                     ![t].idx = IF callers[t].idx = 4 THEN 0 ELSE callers[t].idx + 1,
                     ![t].pc = IF callers[t].idx = 4 THEN "body" ELSE "update"]
    /\ UNCHANGED <<environ_before, lock, oai_result>>
    /\ UNCHANGED agentVars
    /\ UNCHANGED debugVars

\* lines 160-164 of run_gemini_interleaved: _make_request, inside the scope
\* when a proxy is configured and directly when none is
Request(t, req) ==
    /\ callers[t].call = "run_gemini_interleaved"
    /\ \/ callers[t].pc = "body"
       \/ callers[t].pc = "start" /\ callers[t].manager = NoManager
    /\ callers' = [callers EXCEPT
                     ![t].result = _make_request(req),
                     ![t].ending = "normal",
                     ![t].idx = IF callers[t].manager = NoManager THEN 0 ELSE 1,
                     ![t].pc = IF callers[t].manager = NoManager THEN "done" ELSE "restore"]
    /\ UNCHANGED <<environ, environ_before, lock, oai_result>>
    /\ UNCHANGED agentVars
    /\ UNCHANGED debugVars

\* line 44: the body of a with statement on set_proxy, which ends normally or
\* by an exception
ScopeBody(t, ending) ==
    /\ callers[t].call = "set_proxy"
    /\ callers[t].pc = "body"
    /\ callers' = [callers EXCEPT ![t].ending = ending, ![t].idx = 1, ![t].pc = "restore"]
    /\ UNCHANGED <<environ, environ_before, lock, oai_result>>
    /\ UNCHANGED agentVars
    /\ UNCHANGED debugVars

\* RestoredEnv without the deletion of a variable that was absent
RestoredEnv_NoDelete(env, k, original_value) ==
    IF original_value # Unset THEN [env EXCEPT ![k] = original_value]
    ELSE env

\* lines 48-51: one round of the restoring loop
RestoredEnv(env, k, original_value) ==
    IF original_value # Unset THEN [env EXCEPT ![k] = original_value]
    ELSE IF env[k] # Unset THEN [env EXCEPT ![k] = Unset]
    ELSE env

\* lines 45-51: the finally block, one variable at a time
Restore(t) ==
    /\ callers[t].pc = "restore"
    /\ environ' = RestoredEnv(environ, callers[t].idx,
                              callers[t].original_proxies[callers[t].idx])
    /\ callers' = [callers EXCEPT
                     ![t].idx = IF callers[t].idx = 4 THEN 0 ELSE callers[t].idx + 1,
                     ![t].pc = IF callers[t].idx = 4 THEN "release" ELSE "restore"]
    /\ UNCHANGED <<environ_before, lock, oai_result>>
    /\ UNCHANGED agentVars
    /\ UNCHANGED debugVars

\* the end of the with block of line 21: the lock is released and the scope
\* is left, by return or with the exception of the body
Release(t) ==
    /\ callers[t].pc = "release"
    /\ lock' = [lock EXCEPT ![callers[t].manager] = Free]
    /\ callers' = [callers EXCEPT
                     ![t].pc = "done",
                     ![t].result = IF callers[t].ending = "exception"
                                   THEN AdapterRaised("Exception")
                                   ELSE IF callers[t].call = "set_proxy"
                                   THEN AdapterReturned("none", 0)
                                   ELSE callers[t].result]
    /\ UNCHANGED <<environ, environ_before, oai_result>>
    /\ UNCHANGED agentVars
    /\ UNCHANGED debugVars

MaxCallers == 2

Callers == 1..MaxCallers

\* no adapter call is under way
ProvidersIdle ==
    /\ environ = [k \in 1..4 |-> Unset]
    /\ environ_before = environ
    /\ lock = [m \in Callers |-> Free]
    /\ callers = [t \in Callers |-> NewCaller("none", NoManager)]
    /\ oai_result = NoResult

\* json_object is None until a parse succeeds
PyNone == <<"none">>

Analysis(extraction_success, parsing_success, extracted_content, json_object) ==
    [extraction_success |-> extraction_success, parsing_success |-> parsing_success,
     extracted_content |-> extracted_content, json_object |-> json_object]

NoAnalysis == Analysis(FALSE, FALSE, <<>>, PyNone)

DebugIdle == analysis = NoAnalysis

----------------------------------------------------------------------------
\* One call of VLMAgent.__call__ (lines 110-340) with the provider's response
\* text and the parsed screen as inputs.

OutputDirScreenshot(uuid) == StrItem(<<"screenshot", uuid, 0>>, TRUE, FALSE)

OutputDirScreenshotSom(uuid) == StrItem(<<"screenshot_som", uuid, 0>>, TRUE, TRUE)

\* lines 127-131: the last message gets a list content and the two paths
AppendScreenshots(msgs, uuid) ==
    [msgs EXCEPT ![Len(msgs)] =
        Message(TRUE, msgs[Len(msgs)].content
                      \o <<OutputDirScreenshot(uuid), OutputDirScreenshotSom(uuid)>>)]

\* lines 123-131
PlannerMessages_TrimFirst(msgs, keep, uuid) ==
    AppendScreenshots(
        _remove_som_images(_maybe_filter_to_n_most_recent_images(msgs, keep)), uuid)

PlannerMessages(msgs, keep, uuid) ==
    AppendScreenshots(
        _maybe_filter_to_n_most_recent_images(_remove_som_images(msgs), keep), uuid)

NoOutcome == [status |-> "none", error |-> ""]

Call(text, screen) ==
    /\ pc = "ready"
    /\ step_count' = step_count + 1
    /\ parsed_screen' = screen
    /\ messages_before' = messages
    /\ IF Len(messages) = 0
       THEN /\ outcome' = [status |-> "raised", error |-> "IndexError"]
            /\ messages' = _maybe_filter_to_n_most_recent_images(
                               _remove_som_images(messages), images_to_keep)
            /\ UNCHANGED <<vlm_response, extracted, directive, vlm_response_json,
                           parse_calls, used_default, response_content, img_shown>>
       ELSE \E candidate \in {extract_data(text, JsonType)} :
            \E parsed \in {RepairAndParse(candidate)} :
            \E result \in {Decode(parsed.json, screen)} :
                /\ messages' = PlannerMessages(messages, images_to_keep, step_count + 1)
                /\ vlm_response' = text
                /\ extracted' = candidate
                /\ parse_calls' = parsed.calls
                /\ used_default' = parsed.default
                /\ directive' = parsed.json
                /\ vlm_response_json' = result.json
                /\ response_content' = result.content
                /\ outcome' = [status |-> result.status, error |-> result.error]
                /\ img_shown' = ImageShown(parsed.json, screen)
    /\ pc' = "done"
    /\ UNCHANGED images_to_keep
    /\ UNCHANGED providerVars
    /\ UNCHANGED debugVars

----------------------------------------------------------------------------
\* The response texts of the model: directive objects over the four fields,
\* rendered with or without a trailing comma and wrapped as the provider's
\* replies are (bare, fenced, fenced inside prose, unlabelled fence, fence
\* without closing marker), and replies that hold no directive object.

Quoted(t) == <<"\"">> \o t \o <<"\"">>

Member(key, valtext) == <<Quoted(key) \o <<":">> \o valtext>>

RECURSIVE Join(_, _)
Join(parts, sep) ==
    IF Len(parts) = 0 THEN <<>>
    ELSE IF Len(parts) = 1 THEN parts[1]
    ELSE parts[1] \o sep \o Join(Tail(parts), sep)

ObjectText(members, trailing_comma) ==
    <<"{">> \o Join(members, <<",">>) \o (IF trailing_comma THEN <<",">> ELSE <<>>) \o <<"}">>

ReasoningMembers == {<<>>, Member(KeyReasoning, Quoted(<<"o", "k">>))}

NextActionMembers ==
    {<<>>,
     Member(KeyNextAction, Quoted(StrNone)),
     Member(KeyNextAction, Quoted(StrType)),
     Member(KeyNextAction, Quoted(<<"l", "e", "f", "t", "_", "c", "l", "i", "c", "k">>)),
     Member(KeyNextAction, Quoted(<<"f", "l", "y">>))}

BoxIDMembers ==
    {<<>>,
     Member(KeyBoxID, <<"0">>),
     Member(KeyBoxID, <<"7">>),
     Member(KeyBoxID, <<"-", "1">>),
     Member(KeyBoxID, Quoted(<<"x">>))}

ValueMembers ==
    {<<>>,
     Member(KeyValue, Quoted(<<"h", "i">>)),
     Member(KeyValue, Quoted(<<"f", "(", "x", ",", "}">>))}

ObjectTexts ==
    {ObjectText(r \o a \o b \o v, c) :
        r \in ReasoningMembers, a \in NextActionMembers, b \in BoxIDMembers,
        v \in ValueMembers, c \in BOOLEAN}

Wrappings(t) ==
    {t,
     Fence \o JsonType \o <<"\n">> \o t \o <<"\n">> \o Fence,
     <<"O", "K", " ">> \o Fence \o <<"J", "S", "O", "N", "\n">> \o t
        \o <<"\n">> \o Fence \o <<" ", "d", "o", "n", "e">>,
     Fence \o <<"\n">> \o t \o <<"\n">> \o Fence,
     Fence \o JsonType \o <<"\n">> \o t}

OtherTexts ==
    {<<>>,
     <<" ", "\n">>,
     <<"I", " ", "c", "l", "i", "c", "k", "e", "d", " ", "t", "h", "e", " ", "b", "u", "t", "t", "o", "n">>,
     <<"[", "]">>,
     <<"[", "1", ",", "5", "]">>,
     <<"5">>,
     Quoted(<<"x">>),
     <<"{">>,
     <<"{", "}">>,
     Fence \o JsonType \o <<"\n">> \o Fence,
     <<"{">> \o Quoted(KeyNextAction) \o <<" ">> \o Quoted(StrType) \o <<"}">>,
     ObjectText(Member(KeyNextAction, Quoted(StrLeftClick))
                \o Member(KeyCoordinate, <<"[", "1", ",", "5", "]">>), FALSE),
     Fence \o JsonType \o <<"x">>
        \o ObjectText(Member(KeyNextAction, Quoted(StrNone)), FALSE) \o Fence,
     <<"{">> \o Quoted(KeyNextAction) \o <<":">> \o Quoted(StrNone) \o <<",", ",", "}">>,
     <<"{">> \o Quoted(<<"a">>) \o <<":", "{">> \o Quoted(<<"b">>)
        \o <<":", "1", ",", "}", ",", "}">>}

ResponseTexts == UNION {Wrappings(t) : t \in ObjectTexts} \cup OtherTexts

Screen(elements) == [parsed_content_list |-> elements, width |-> 1000, height |-> 500]

SizedScreen(elements, width, height) ==
    [parsed_content_list |-> elements, width |-> width, height |-> height]

\* no element; one element with bbox (0.1, 0.2, 0.3, 0.4) on a screen of
\* 1000 x 500 and on one of 1003 x 501, where the scaled centroid is no integer
Screens ==
    {Screen(<<>>), Screen(<< <<1, 2, 3, 4>> >>), SizedScreen(<< <<1, 2, 3, 4>> >>, 1003, 501)}

TaskMessage == Message(FALSE, <<StrItem(<<"task", 0, 0>>, FALSE, FALSE)>>)

AgentInit ==
    /\ messages = <<TaskMessage>>
    /\ images_to_keep = None
    /\ messages_before = <<>>
    /\ step_count = 0
    /\ parsed_screen = Screen(<<>>)
    /\ vlm_response = <<>>
    /\ extracted = <<>>
    /\ directive = JObj(<<>>)
    /\ vlm_response_json = JObj(<<>>)
    /\ parse_calls = 0
    /\ used_default = FALSE
    /\ response_content = <<>>
    /\ outcome = NoOutcome
    /\ img_shown = "none"
    /\ pc = "ready"

Init == AgentInit /\ ProvidersIdle /\ DebugIdle

Next == \E text \in ResponseTexts, screen \in Screens : Call(text, screen)

Spec == Init /\ [][Next]_vars

----------------------------------------------------------------------------
\* extract_data as a function of its input: the texts are the concatenations
\* of at most MaxSegments segments.

MaxSegments == 5

Segments ==
    {Fence \o JsonType, Fence \o <<"J", "S", "O", "N">>, Fence,
     <<"{">>, <<"}">>, <<"x">>, <<"\n">>}

RECURSIVE SegmentTexts(_)
SegmentTexts(n) ==
    IF n = 0 THEN {<<>>}
    ELSE SegmentTexts(n - 1) \cup {t \o g : t \in SegmentTexts(n - 1), g \in Segments}

InitExtract ==
    /\ ProvidersIdle
    /\ DebugIdle
    /\ vlm_response \in SegmentTexts(MaxSegments)
    /\ messages = <<>>
    /\ images_to_keep = None
    /\ messages_before = <<>>
    /\ step_count = 0
    /\ parsed_screen = Screen(<<>>)
    /\ extracted = <<>>
    /\ directive = JObj(<<>>)
    /\ vlm_response_json = JObj(<<>>)
    /\ parse_calls = 0
    /\ used_default = FALSE
    /\ response_content = <<>>
    /\ outcome = NoOutcome
    /\ img_shown = "none"
    /\ pc = "ready"

Extract ==
    /\ pc = "ready"
    /\ extracted' = extract_data(vlm_response, JsonType)
    /\ pc' = "extracted"
    /\ UNCHANGED <<messages, images_to_keep, messages_before, step_count,
                   parsed_screen, vlm_response, directive, vlm_response_json,
                   parse_calls, used_default, response_content, outcome, img_shown>>
    /\ UNCHANGED providerVars
    /\ UNCHANGED debugVars

NextExtract == Extract

SpecExtract == InitExtract /\ [][NextExtract]_vars

----------------------------------------------------------------------------
\* _maybe_filter_to_n_most_recent_images as a function of the history and of
\* images_to_keep: histories of at most MaxMessages messages with at most
\* MaxItems items each, tool_result wrappers of at most MaxNested entries.

MaxMessages == 2

MaxItems == 2

MaxNested == 1

MaxKeep == 3

\* the sequences of length at most n over the set S
RECURSIVE SeqsUpTo(_, _)
SeqsUpTo(S, n) ==
    IF n = 0 THEN {<<>>}
    ELSE SeqsUpTo(S, n - 1) \cup {Append(q, x) : q \in SeqsUpTo(S, n - 1), x \in S}

\* the shapes of a content item; the ids are given by position
ItemShapes ==
    {StrItem(<<>>, FALSE, FALSE), StrItem(<<>>, TRUE, FALSE), BlockItem(<<>>)}
    \cup {ToolResult(<<>>, FALSE, e) : e \in SeqsUpTo({"image", "text"}, MaxNested)}
    \cup {ToolResult(<<>>, TRUE, <<"char", "char">>)}

Identified(shape, m, k) ==
    [shape EXCEPT !.id = <<"item", m, k>>,
                  !.content = [n \in 1..Len(shape.content) |->
                                 [type |-> shape.content[n], id |-> <<"entry", m, k, n>>]]]

MessageShapes ==
    {Message(TRUE, items) : items \in SeqsUpTo(ItemShapes, MaxItems)}
    \cup {Message(FALSE, <<StrItem(<<>>, FALSE, FALSE)>>)}

Histories ==
    {[m \in 1..Len(h) |->
        Message(h[m].content_is_list,
                [k \in 1..Len(h[m].content) |-> Identified(h[m].content[k], m, k)])] :
     h \in SeqsUpTo(MessageShapes, MaxMessages)}

InitTrim ==
    /\ ProvidersIdle
    /\ DebugIdle
    /\ messages \in Histories
    /\ images_to_keep \in {None} \cup {Some(n) : n \in 0..MaxKeep}
    /\ messages_before = <<>>
    /\ step_count = 0
    /\ parsed_screen = Screen(<<>>)
    /\ vlm_response = <<>>
    /\ extracted = <<>>
    /\ directive = JObj(<<>>)
    /\ vlm_response_json = JObj(<<>>)
    /\ parse_calls = 0
    /\ used_default = FALSE
    /\ response_content = <<>>
    /\ outcome = NoOutcome
    /\ img_shown = "none"
    /\ pc = "ready"

Trim ==
    /\ pc = "ready"
    /\ messages_before' = messages
    /\ messages' = _maybe_filter_to_n_most_recent_images(messages, images_to_keep)
    /\ pc' = "trimmed"
    /\ UNCHANGED <<images_to_keep, step_count, parsed_screen, vlm_response, extracted,
                   directive, vlm_response_json, parse_calls, used_default,
                   response_content, outcome, img_shown>>
    /\ UNCHANGED providerVars
    /\ UNCHANGED debugVars

NextTrim == Trim

SpecTrim == InitTrim /\ [][NextTrim]_vars

----------------------------------------------------------------------------
\* The adapters called one at a time: run_oai_interleaved once, and one
\* caller of run_gemini_interleaved with or without a proxy configured.

Environs ==
    {[k \in 1..4 |-> Unset], [k \in 1..4 |-> OldUrl],
     [k \in 1..4 |-> IF k = 1 THEN OldUrl ELSE Unset]}

InitAdapters ==
    /\ AgentInit
    /\ environ \in Environs
    /\ environ_before = environ
    /\ lock = [m \in Callers |-> Free]
    /\ \E manager \in {NoManager, 1} :
          callers = [t \in Callers |->
                       IF t = 1 THEN NewCaller("run_gemini_interleaved", manager)
                       ELSE NewCaller("none", NoManager)]
    /\ oai_result = NoResult
    /\ DebugIdle

NextAdapters ==
    \/ \E req \in OaiRequests : RunOai(req)
    \/ Enter(1)
    \/ Save(1)
    \/ Update(1)
    \/ \E req \in GeminiRequests : Request(1, req)
    \/ Restore(1)
    \/ Release(1)

SpecAdapters == InitAdapters /\ [][NextAdapters]_vars

\* Concurrent callers of run_gemini_interleaved: every call builds its own
\* ProxyManager (line 79) when a proxy is configured.
InitGemini ==
    /\ AgentInit
    /\ environ \in Environs
    /\ environ_before = environ
    /\ lock = [m \in Callers |-> Free]
    /\ \E configured \in SUBSET Callers :
          callers = [t \in Callers |->
                       NewCaller("run_gemini_interleaved",
                                 IF t \in configured THEN t ELSE NoManager)]
    /\ oai_result = NoResult
    /\ DebugIdle

NextGemini ==
    \E t \in Callers :
        \/ Enter(t)
        \/ Save(t)
        \/ Update(t)
        \/ \E req \in GeminiRequests : Request(t, req)
        \/ Restore(t)
        \/ Release(t)

SpecGemini == InitGemini /\ [][NextGemini]_vars

\* One ProxyManager shared by the callers of its set_proxy.
InitManager ==
    /\ AgentInit
    /\ environ \in Environs
    /\ environ_before = environ
    /\ lock = [m \in Callers |-> Free]
    /\ callers = [t \in Callers |-> NewCaller("set_proxy", 1)]
    /\ oai_result = NoResult
    /\ DebugIdle

NextManager ==
    \E t \in Callers :
        \/ Enter(t)
        \/ Save(t)
        \/ Update(t)
        \/ \E ending \in {"normal", "exception"} : ScopeBody(t, ending)
        \/ Restore(t)
        \/ Release(t)

SpecManager == InitManager /\ [][NextManager]_vars

----------------------------------------------------------------------------
\* Properties of one step (specification Spec).

StrRightClick ==
    <<"r", "i", "g", "h", "t", "_", "c", "l", "i", "c", "k">>

StrDoubleClick ==
    <<"d", "o", "u", "b", "l", "e", "_", "c", "l", "i", "c", "k">>

StrHover ==
    <<"h", "o", "v", "e", "r">>

StrScrollUp ==
    <<"s", "c", "r", "o", "l", "l", "_", "u", "p">>

StrScrollDown ==
    <<"s", "c", "r", "o", "l", "l", "_", "d", "o", "w", "n">>

StrWait ==
    <<"w", "a", "i", "t">>

\* the actions the system prompt offers, and the literal "None"
KnownActions ==
    {JStr(StrType), JStr(StrLeftClick), JStr(StrRightClick), JStr(StrDoubleClick),
     JStr(StrHover), JStr(StrScrollUp), JStr(StrScrollDown), JStr(StrWait),
     JStr(StrNone)}

IsDirective(json) == json[1] = "obj" /\ KeyNextAction \in DOMAIN json[2]

UnrecognizedAction(json) ==
    /\ IsDirective(json)
    /\ json[2][KeyNextAction][1] = "str"
    /\ json[2][KeyNextAction] \notin KnownActions

TypeWithoutValue(json) ==
    /\ IsDirective(json)
    /\ json[2][KeyNextAction] = JStr(StrType)
    /\ KeyValue \notin DOMAIN json[2]

ToolUses == {k \in 1..Len(response_content) : response_content[k].type = "tool_use"}

\* the blocks of the response message whose action is the value a
BlocksWithAction(a) ==
    {k \in ToolUses : response_content[k].input["action"] = a}

\* C1: whatever the response text, the step returns with a directive that
\* carries a Next Action; it raises only for an unrecognized Next Action or
\* for a "type" action without value.
C1_StepAlwaysCompletes ==
    pc = "done" =>
        /\ IsDirective(vlm_response_json)
        /\ outcome.status = "raised" =>
              UnrecognizedAction(vlm_response_json) \/ TypeWithoutValue(vlm_response_json)

\* C2: a parsed directive whose Next Action is a string outside the known set
\* makes the step report an error, and no action block carries that string.
C2_UnrecognizedActionReported ==
    (pc = "done" /\ ~used_default /\ UnrecognizedAction(directive)) =>
        /\ outcome.status = "raised"
        /\ BlocksWithAction(directive[2][KeyNextAction]) = {}

\* C3: a "type" directive without value makes the step raise (KeyError): no
\* response message is returned, hence no type action with empty or absent text.
C3_TypeWithoutValueRaises ==
    (pc = "done" /\ TypeWithoutValue(directive)) =>
        /\ outcome = [status |-> "raised", error |-> "KeyError"]
        /\ response_content = <<>>

C3_Witness ==
    /\ pc = "done"
    /\ TypeWithoutValue(directive)
    /\ outcome.status = "raised"
    /\ KeyBoxID \in DOMAIN directive[2]

\* C4: with Next Action "None" the step returns a response message without
\* anything to execute, whatever the Box ID and the value are.
C4_NoneYieldsStop ==
    (pc = "done" /\ IsDirective(directive) /\ directive[2][KeyNextAction] = JStr(StrNone)) =>
        /\ outcome.status = "returned"
        /\ ToolUses = {}

\* the candidate is a JSON object but for the comma at index i, which stands
\* before a closing brace
TrailingCommaAt(candidate, i) ==
    /\ candidate[i] = ","
    /\ SkipWs(candidate, i + 1) <= Len(candidate)
    /\ candidate[SkipWs(candidate, i + 1)] = "}"
    /\ ~json_loads(candidate).ok
    /\ json_loads(Drop(candidate, {i})).ok
    /\ json_loads(Drop(candidate, {i})).val[1] = "obj"

\* C9: a candidate that is a valid JSON object but for one trailing comma
\* before a closing brace parses, and yields the object of the comma-free text.
C9_TrailingCommaRepaired ==
    pc = "done" =>
        \A i \in 1..Len(extracted) :
            TrailingCommaAt(extracted, i) =>
                /\ ~used_default
                /\ directive = json_loads(Drop(extracted, {i})).val

\* the text the repair stage parses
Cleaned == CleanCandidate(extracted)

BothParsesFail ==
    /\ ~json_loads(Cleaned).ok
    /\ ~json_loads(SecondCleanup(Cleaned)).ok

IsDefaultDirective(json) ==
    /\ json[1] = "obj"
    /\ DOMAIN json[2] = {KeyReasoning, KeyNextAction}
    /\ json[2][KeyNextAction] = JStr(StrScreenshot)
    /\ json[2][KeyReasoning][1] = "str"
    /\ Len(json[2][KeyReasoning][2]) > 0

\* C10: an empty or whitespace-only cleaned candidate, and one that fails both
\* parse attempts, give the default directive (Next Action "screenshot", a
\* Reasoning text, no Box ID, no coordinate) for the rest of the step, which
\* returns; an empty candidate is never parsed.
C10_FallbackDirective ==
    (pc = "done" /\ (Len(Cleaned) = 0 \/ isspace(Cleaned) \/ BothParsesFail)) =>
        /\ IsDefaultDirective(directive)
        /\ vlm_response_json = directive
        /\ outcome.status = "returned"
        /\ (Len(Cleaned) = 0 \/ isspace(Cleaned)) => parse_calls = 0

C10_Witness ==
    /\ pc = "done"
    /\ Len(Cleaned) > 0
    /\ BothParsesFail
    /\ IsDefaultDirective(directive)
    /\ parse_calls = 2
    /\ outcome.status = "returned"

----------------------------------------------------------------------------
\* The image items of a history, by id, in the order oldest message first,
\* oldest item first, nested images in place.

ItemImageIds(cnt) ==
    IF cnt.kind = "str" THEN (IF cnt.image THEN {cnt.id} ELSE {})
    ELSE IF cnt.kind = "tool_result"
    THEN {cnt.content[n].id : n \in {n \in 1..Len(cnt.content) : cnt.content[n].type = "image"}}
    ELSE {}

MessageImageIds(msg) ==
    IF msg.content_is_list
    THEN UNION {ItemImageIds(msg.content[k]) : k \in 1..Len(msg.content)}
    ELSE {}

ImageIds(msgs) == UNION {MessageImageIds(msgs[m]) : m \in 1..Len(msgs)}

\* the position <<message, item, entry>> an id stands for; entry 0 is the item
PositionOf(id) == IF id[1] = "item" THEN <<id[2], id[3], 0>> ELSE <<id[2], id[3], id[4]>>

Earlier(p, q) ==
    \/ p[1] < q[1]
    \/ p[1] = q[1] /\ p[2] < q[2]
    \/ p[1] = q[1] /\ p[2] = q[2] /\ p[3] < q[3]

\* the first n image items of a history
FirstImages(msgs, n) ==
    {a \in ImageIds(msgs) :
        Cardinality({b \in ImageIds(msgs) : Earlier(PositionOf(b), PositionOf(a))}) < n}

\* the items of one message with the image items of R deleted
WithoutItems(items, R) ==
    LET kept == SelectSeq(items, LAMBDA cnt : cnt.id \notin R)
    IN  [k \in 1..Len(kept) |->
            IF kept[k].kind = "tool_result"
            THEN [kept[k] EXCEPT !.content = SelectSeq(@, LAMBDA e : e.id \notin R)]
            ELSE kept[k]]

\* a history with the image items of R deleted and nothing else changed
WithoutImages(msgs, R) ==
    [m \in 1..Len(msgs) |->
        IF msgs[m].content_is_list
        THEN Message(TRUE, WithoutItems(msgs[m].content, R))
        ELSE msgs[m]]

\* C5: for keep >= 0 the history holds min(count before, keep) image items
\* after trimming, top-level and nested ones together; with keep null the
\* history is left as it was.
C5_ImageCountAfterTrim ==
    pc = "trimmed" =>
        IF images_to_keep = None
        THEN messages = messages_before
        ELSE Cardinality(ImageIds(messages))
                = Min({Cardinality(ImageIds(messages_before)), images_to_keep[1]})

C5_Witness ==
    /\ pc = "trimmed"
    /\ images_to_keep = Some(1)
    /\ Cardinality(ImageIds(messages_before)) = 3
    /\ \E a \in ImageIds(messages_before) : a[1] = "entry"
    /\ Cardinality(ImageIds(messages)) = 1

\* C6: the history after trimming is the history before with exactly the
\* first max(0, total - keep) image items deleted, every other item and every
\* message kept as it was and in its order.
C6_OldestImagesDeleted ==
    (pc = "trimmed" /\ images_to_keep # None) =>
        messages = WithoutImages(messages_before,
                      FirstImages(messages_before,
                          Max({0, Cardinality(ImageIds(messages_before)) - images_to_keep[1]})))

\* C6 for the histories whose tool_result wrappers all hold a list
C6_ListContentOnly ==
    (/\ pc = "trimmed" /\ images_to_keep # None
     /\ \A m \in 1..Len(messages_before) :
           messages_before[m].content_is_list =>
               \A k \in 1..Len(messages_before[m].content) :
                   ~messages_before[m].content[k].content_is_str) =>
        messages = WithoutImages(messages_before,
                      FirstImages(messages_before,
                          Max({0, Cardinality(ImageIds(messages_before)) - images_to_keep[1]})))

----------------------------------------------------------------------------
\* extract_data, stated on the characters of the input.

\* t is s without its leading and trailing whitespace
TrimmedOf(t, s) ==
    \E a \in 0..Len(s) : \E b \in 0..(Len(s) - a) :
        /\ \A i \in 1..a : s[i] \in Whitespace
        /\ \A i \in (Len(s) - b + 1)..Len(s) : s[i] \in Whitespace
        /\ Len(t) = Len(s) - a - b
        /\ \A i \in 1..Len(t) : t[i] = s[a + i]
        /\ Len(t) > 0 => (t[1] \notin Whitespace /\ t[Len(t)] \notin Whitespace)

IsFenceAt(s, j) == j >= 1 /\ j + 2 <= Len(s) /\ \A d \in 0..2 : s[j + d] = BQ

\* a fence followed by the label json in either case
IsLabelAt(s, i) ==
    /\ IsFenceAt(s, i)
    /\ i + 6 <= Len(s)
    /\ <<Lower(s[i + 3]), Lower(s[i + 4]), Lower(s[i + 5]), Lower(s[i + 6])>> = JsonType

\* the first labelled block of s opens at i and is closed by the fence at j
IsFirstBlock(s, i, j) ==
    /\ IsLabelAt(s, i)
    /\ \A h \in 1..(i - 1) : ~IsLabelAt(s, h)
    /\ j >= i + 7 /\ IsFenceAt(s, j)
    /\ \A h \in (i + 7)..(j - 1) : ~IsFenceAt(s, h)

\* C7: where the input holds a fenced block labelled json (in either case)
\* with a closing fence, extract_data returns the inner text of the first such
\* block with its surrounding whitespace trimmed, whatever surrounds the block.
C7_LabelledFenceExtracted ==
    pc = "extracted" =>
        \A i \in 1..Len(vlm_response) : \A j \in i..Len(vlm_response) :
            IsFirstBlock(vlm_response, i, j) =>
                TrimmedOf(extracted, Slice(vlm_response, i + 7, j - 1))

C7_Witness ==
    /\ pc = "extracted"
    /\ \E i \in 2..Len(vlm_response) : \E j \in i..Len(vlm_response) :
          /\ IsFirstBlock(vlm_response, i, j)
          /\ vlm_response[i + 3] = "J"
          /\ vlm_response[i + 7] \in Whitespace
    /\ extracted = <<"x">>

\* C8 as claimed: an input without any opening brace comes back whole, with
\* its surrounding whitespace trimmed.
C8_NoBraceWholeInput ==
    (pc = "extracted" /\ \A i \in 1..Len(vlm_response) : vlm_response[i] # "{") =>
        TrimmedOf(extracted, vlm_response)

\* C8: an input without any opening brace and without a fence labelled json
\* comes back whole, with its surrounding whitespace trimmed.
C8_NoBraceNoLabelWholeInput ==
    (/\ pc = "extracted"
     /\ \A i \in 1..Len(vlm_response) :
           vlm_response[i] # "{" /\ ~IsLabelAt(vlm_response, i)) =>
        TrimmedOf(extracted, vlm_response)

C8_Witness ==
    /\ pc = "extracted"
    /\ \A i \in 1..Len(vlm_response) :
          vlm_response[i] # "{" /\ ~IsLabelAt(vlm_response, i)
    /\ \E j \in 1..Len(vlm_response) : IsFenceAt(vlm_response, j)
    /\ Len(vlm_response) > 0 /\ vlm_response[Len(vlm_response)] \in Whitespace
    /\ Len(extracted) > 0 /\ Len(extracted) < Len(vlm_response)

----------------------------------------------------------------------------
\* The resolution of the Box ID.

\* the Box ID of the directive is an index 0..len-1 of the screen's elements
ValidBoxID(json, screen) ==
    /\ json[1] = "obj"
    /\ KeyBoxID \in DOMAIN json[2]
    /\ PyInt(json[2][KeyBoxID]).ok
    /\ PyInt(json[2][KeyBoxID]).n \in 0..(Len(screen.parsed_content_list) - 1)

BoxOf(json, screen) == screen.parsed_content_list[PyInt(json[2][KeyBoxID]).n + 1]

\* the integer nearest to n / d, for n >= 0 and d > 0 with n / d not half way
RoundDiv(n, d) == (2 * n + d) \div (2 * d)

\* the coordinate attached to the directive is <<x, y>>
CoordinateIs(x, y) ==
    /\ vlm_response_json[1] = "obj"
    /\ KeyCoordinate \in DOMAIN vlm_response_json[2]
    /\ vlm_response_json[2][KeyCoordinate] = JArr(<<JInt(x), JInt(y)>>)

\* C11 as claimed: with a valid Box ID the coordinate is the centroid of the
\* box scaled to the screen and rounded to the nearest pixel.
C11_CentroidRounded ==
    (pc = "done" /\ ValidBoxID(directive, parsed_screen)) =>
        LET b == BoxOf(directive, parsed_screen)
        IN  CoordinateIs(RoundDiv((b[1] + b[3]) * parsed_screen.width, 20),
                         RoundDiv((b[2] + b[4]) * parsed_screen.height, 20))

\* the directive carries a coordinate of two integers
HasCoordinate ==
    /\ vlm_response_json[1] = "obj"
    /\ KeyCoordinate \in DOMAIN vlm_response_json[2]
    /\ vlm_response_json[2][KeyCoordinate][1] = "arr"
    /\ Len(vlm_response_json[2][KeyCoordinate][2]) = 2
    /\ \A k \in 1..2 : vlm_response_json[2][KeyCoordinate][2][k][1] = "int"

CoordinateX == vlm_response_json[2][KeyCoordinate][2][1][2]

CoordinateY == vlm_response_json[2][KeyCoordinate][2][2][2]

\* C11: with a valid Box ID the coordinate is the centroid of the box scaled
\* to the screen with the fraction of a pixel cut off: x <= centroid < x + 1.
C11_CentroidTruncated ==
    (pc = "done" /\ ValidBoxID(directive, parsed_screen)) =>
        LET b == BoxOf(directive, parsed_screen)
            cx == (b[1] + b[3]) * parsed_screen.width
            cy == (b[2] + b[4]) * parsed_screen.height
        IN  /\ HasCoordinate
            /\ 20 * CoordinateX <= cx /\ cx < 20 * (CoordinateX + 1)
            /\ 20 * CoordinateY <= cy /\ cy < 20 * (CoordinateY + 1)

C11_Witness ==
    /\ pc = "done"
    /\ ValidBoxID(directive, parsed_screen)
    /\ parsed_screen.width = 1003
    /\ CoordinateIs(200, 150)
    /\ outcome.status = "returned"

\* the directive has a Box ID that names no element: not convertible to an
\* integer, or outside 0..len-1
InvalidBoxID(json, screen) ==
    /\ json[1] = "obj"
    /\ KeyBoxID \in DOMAIN json[2]
    /\ ~ValidBoxID(json, screen)

MouseMoves ==
    {k \in ToolUses : response_content[k].input["action"] = JStr(StrMouseMove)}

\* the dispatch on Next Action took place: a missing Next Action and a type
\* action without value raise, "None" adds no block, any other action adds
\* one block that carries it
Dispatched(json) ==
    IF ~IsDirective(json) \/ TypeWithoutValue(json)
    THEN outcome = [status |-> "raised", error |-> "KeyError"]
    ELSE /\ outcome.status = "returned"
         /\ Cardinality(BlocksWithAction(json[2][KeyNextAction]))
               = IF json[2][KeyNextAction] = JStr(StrNone) THEN 0 ELSE 1

\* C12: a Box ID that is out of range or not convertible to an integer is
\* caught inside the step: the directive gets no coordinate, no cursor-move
\* block is emitted, the image shown is the unmarked one, and the dispatch on
\* Next Action takes place.
C12_BadBoxIDRecovered ==
    (pc = "done" /\ InvalidBoxID(directive, parsed_screen)) =>
        /\ vlm_response_json = directive
        /\ KeyCoordinate \notin DOMAIN vlm_response_json[2]
        /\ MouseMoves = {}
        /\ img_shown = "som"
        /\ Dispatched(directive)

\* C12 for the Box IDs that Python's list indexing rejects as well: not
\* convertible, at least len, or below -len
C12_RejectedIndexRecovered ==
    (/\ pc = "done" /\ InvalidBoxID(directive, parsed_screen)
     /\ PyInt(directive[2][KeyBoxID]).ok =>
           ~ListIndex(parsed_screen.parsed_content_list,
                      PyInt(directive[2][KeyBoxID]).n).ok) =>
        /\ vlm_response_json = directive
        /\ MouseMoves = {}
        /\ img_shown = "som"
        /\ Dispatched(directive)

----------------------------------------------------------------------------
\* The provider adapters and the proxy scope.

\* an adapter result that reports a failure does so as text with 0 tokens
ReportsFailureAsText(result) ==
    /\ result.status # "raised"
    /\ result.text = "error" => result.tokens = 0

\* C13: no adapter call raises past its boundary: whatever fails, the call
\* returns an error text together with the token count 0.
C13_AdaptersNeverRaise ==
    /\ ReportsFailureAsText(oai_result)
    /\ \A t \in Callers : ReportsFailureAsText(callers[t].result)

\* C13 for run_gemini_interleaved alone
C13_GeminiNeverRaises ==
    \A t \in Callers : ReportsFailureAsText(callers[t].result)

\* the caller is between the saving and the restoring of the variables
InScope(t) == callers[t].pc \in {"save", "update", "body", "restore", "release"}

\* C14: the callers' mutation of the proxy variables is serialized (at most
\* one caller is between saving and restoring), and once every call has
\* returned the variables hold the values they had before the first call.
C14_ProxyMutationSerialized ==
    /\ Cardinality({t \in Callers : InScope(t)}) <= 1
    /\ (\A t \in Callers : callers[t].pc = "done") => environ = environ_before

\* C18: the step that leaves a set_proxy scope, after a body that ended
\* normally or by an exception, leaves each of the four variables with the
\* value it had on entry (Unset where it was absent) and the lock free.
C18_ScopeRestoresEnvironment ==
    [][\A t \in Callers :
          (callers[t].pc = "release" /\ callers'[t].pc = "done") =>
              /\ environ' = callers[t].entry
              /\ lock'[callers[t].manager] = Free]_vars

C18_Witness ==
    \E t \in Callers :
        /\ callers[t].pc = "done"
        /\ callers[t].ending = "exception"
        /\ callers[t].result.status = "raised"
        /\ callers[t].entry = [k \in 1..4 |-> IF k = 1 THEN OldUrl ELSE Unset]
        /\ environ = callers[t].entry
        /\ lock[callers[t].manager] = Free

----------------------------------------------------------------------------
\* The four kinds of region extract_data looks for, stated on the characters
\* of the input.

HasClosedLabel(s) == \E i \in 1..Len(s) : \E j \in i..Len(s) : IsFirstBlock(s, i, j)

\* a fence at i, then only whitespace up to an opening brace at p, a closing
\* brace at q and only whitespace between it and a fence
ObjectFenceAt(s, i, p, q) ==
    /\ IsFenceAt(s, i)
    /\ p >= i + 3 /\ p < q /\ q <= Len(s)
    /\ \A h \in (i + 3)..(p - 1) : s[h] \in Whitespace
    /\ s[p] = "{" /\ s[q] = "}"
    /\ \E f \in (q + 1)..Len(s) :
          /\ IsFenceAt(s, f)
          /\ \A h \in (q + 1)..(f - 1) : s[h] \in Whitespace

Braces(s) == {h \in 1..Len(s) : s[h] \in {"{", "}"}}

HasObjectFence(s) ==
    \E i \in 1..Len(s) : \E p \in Braces(s) : \E q \in Braces(s) : ObjectFenceAt(s, i, p, q)

\* the first unlabelled fence holding an object, with its shortest object
IsFirstObjectFence(s, i, p, q) ==
    /\ ObjectFenceAt(s, i, p, q)
    /\ \A h \in 1..(i - 1) : \A a \in Braces(s) : \A b \in Braces(s) :
          ~ObjectFenceAt(s, h, a, b)
    /\ \A b \in Braces(s) : b < q => ~ObjectFenceAt(s, i, p, b)

\* the number of braces open after index h of a region that starts at b
Depth(s, b, h) ==
    Cardinality({k \in b..h : s[k] = "{"}) - Cardinality({k \in b..h : s[k] = "}"})

\* s[b..e] is an object whose braces nest at most two deep
IsFlatObject(s, b, e) ==
    /\ b < e /\ s[b] = "{" /\ s[e] = "}"
    /\ Depth(s, b, e) = 0
    /\ \A h \in Braces(s) : (b <= h /\ h < e) => Depth(s, b, h) \in {1, 2}

IsFirstFlatObject(s, b, e) ==
    /\ IsFlatObject(s, b, e)
    /\ \A a \in Braces(s) : \A c \in Braces(s) : a < b => ~IsFlatObject(s, a, c)

\* C15: the kinds of region are tried in the order labelled closed fence,
\* unlabelled fence holding an object, labelled fence without closing marker,
\* bare object; the first region of the first kind present is returned,
\* wherever regions of the later kinds lie.
C15_PatternPriority ==
    pc = "extracted" =>
        LET s == vlm_response
        IN  /\ \A i \in 1..Len(s) : \A j \in i..Len(s) :
                  IsFirstBlock(s, i, j) => TrimmedOf(extracted, Slice(s, i + 7, j - 1))
            /\ ~HasClosedLabel(s) =>
                  /\ \A i \in 1..Len(s) : \A p \in Braces(s) : \A q \in Braces(s) :
                        IsFirstObjectFence(s, i, p, q) => extracted = Slice(s, p, q)
                  /\ ~HasObjectFence(s) =>
                        /\ \A i \in 1..Len(s) :
                              (IsLabelAt(s, i) /\ \A h \in 1..(i - 1) : ~IsLabelAt(s, h)) =>
                                  TrimmedOf(extracted, Slice(s, i + 7, Len(s)))
                        /\ (\A i \in 1..Len(s) : ~IsLabelAt(s, i)) =>
                              \A b \in Braces(s) : \A e \in Braces(s) :
                                  IsFirstFlatObject(s, b, e) => extracted = Slice(s, b, e)

\* a bare object lies before a labelled closed fence, and the fence wins
C15_Witness ==
    /\ pc = "extracted"
    /\ \E i \in 1..Len(vlm_response) : \E j \in i..Len(vlm_response) :
          /\ IsFirstBlock(vlm_response, i, j)
          /\ \E b \in Braces(vlm_response) : \E e \in Braces(vlm_response) :
                e < i /\ IsFlatObject(vlm_response, b, e)
    /\ extracted = <<"x">>

\* Several steps on one history: between two steps the caller of the agent
\* may append a message to the history (the result of the executed action)
\* before it calls the agent again.

MaxSteps == 3

StepTexts ==
    {<<"I", " ", "c", "l", "i", "c", "k", "e", "d">>,
     ObjectText(Member(KeyNextAction, Quoted(StrLeftClick)), FALSE)}

\* the messages the caller appends after step n: a text, the path of an
\* image, a path that names an annotated image, a bare str content
CallerMessages(n) ==
    {Message(TRUE, <<StrItem(<<"result", n, 1>>, image, som)>>) :
        image \in BOOLEAN, som \in BOOLEAN}
    \cup {Message(FALSE, <<StrItem(<<"result", n, 1>>, FALSE, FALSE)>>)}

\* only_n_most_recent_images is set when the agent is built
InitSteps ==
    /\ messages = <<TaskMessage>>
    /\ images_to_keep \in {None} \cup {Some(keep) : keep \in 0..MaxKeep}
    /\ messages_before = <<>>
    /\ step_count = 0
    /\ parsed_screen = Screen(<<>>)
    /\ vlm_response = <<>>
    /\ extracted = <<>>
    /\ directive = JObj(<<>>)
    /\ vlm_response_json = JObj(<<>>)
    /\ parse_calls = 0
    /\ used_default = FALSE
    /\ response_content = <<>>
    /\ outcome = NoOutcome
    /\ img_shown = "none"
    /\ pc = "ready"
    /\ ProvidersIdle
    /\ DebugIdle

\* the caller goes on to the next step, with or without a new message
Continue(appended) ==
    /\ pc = "done"
    /\ outcome.status = "returned"
    /\ step_count < MaxSteps
    /\ messages' = messages \o appended
    /\ pc' = "ready"
    /\ UNCHANGED <<images_to_keep, messages_before, step_count, parsed_screen,
                   vlm_response, extracted, directive, vlm_response_json, parse_calls,
                   used_default, response_content, outcome, img_shown>>
    /\ UNCHANGED providerVars
    /\ UNCHANGED debugVars

NextSteps ==
    \/ \E text \in StepTexts : Call(text, Screen(<<>>))
    \/ \E appended \in {<<>>} \cup {<<msg>> : msg \in CallerMessages(step_count)} :
          Continue(appended)

SpecSteps == InitSteps /\ [][NextSteps]_vars

SomIds(msgs) ==
    UNION {{msgs[m].content[k].id :
               k \in {k \in 1..Len(msgs[m].content) :
                         /\ msgs[m].content[k].kind = "str"
                         /\ msgs[m].content[k].som
                         /\ is_image_path(msgs[m].content[k])}} :
           m \in {m \in 1..Len(msgs) : msgs[m].content_is_list}}

NonSomImageIds(msgs) == ImageIds(msgs) \ SomIds(msgs)

StepScreenshots(uuid) == {OutputDirScreenshot(uuid).id, OutputDirScreenshotSom(uuid).id}

\* C16: in every step the annotated screenshots are removed from the whole
\* history before the history is trimmed: the only annotated screenshot in
\* the messages handed to the provider is the one of the current step, and
\* the images retained from the earlier history are min(keep, the number of
\* earlier images that are not annotated screenshots).
C16_SomNeverCarriedOver ==
    (pc = "done" /\ outcome.status = "returned") =>
        /\ SomIds(messages) = {OutputDirScreenshotSom(step_count).id}
        /\ images_to_keep # None =>
              Cardinality(ImageIds(messages) \ StepScreenshots(step_count))
                 = Min({Cardinality(NonSomImageIds(messages_before)), images_to_keep[1]})

C16_Witness ==
    /\ pc = "done"
    /\ outcome.status = "returned"
    /\ step_count = 2
    /\ OutputDirScreenshotSom(1).id \in SomIds(messages_before)
    /\ images_to_keep = Some(1)
    /\ Cardinality(NonSomImageIds(messages_before)) >= 2
    /\ Cardinality(ImageIds(messages) \ StepScreenshots(2)) = 1

CursorMoves == {k \in ToolUses : "coordinate" \in DOMAIN response_content[k].input}

\* C17: the response of a step is one text block, then one cursor-move
\* block exactly when a coordinate was resolved from the Box ID, then at
\* most one block for the Next Action; the cursor move comes before it.
C17_ResponseBlockOrder ==
    (pc = "done" /\ outcome.status = "returned") =>
        /\ Len(response_content) >= 1
        /\ response_content[1].type = "text"
        /\ ToolUses = 2..Len(response_content)
        /\ CursorMoves = IF BoxResolved(directive, parsed_screen) THEN {2} ELSE {}
        /\ Cardinality(ToolUses \ CursorMoves) <= 1
        /\ \A k \in ToolUses \ CursorMoves :
              /\ response_content[k].input["action"] = directive[2][KeyNextAction]
              /\ \A c \in CursorMoves : c < k

\* the same order, with the cursor move tied to the coordinate entry of the
\* directive wherever that entry comes from
C17_CursorMoveIffCoordinateEntry ==
    (pc = "done" /\ outcome.status = "returned") =>
        /\ Len(response_content) >= 1
        /\ response_content[1].type = "text"
        /\ ToolUses = 2..Len(response_content)
        /\ CursorMoves = IF KeyCoordinate \in DOMAIN vlm_response_json[2] THEN {2} ELSE {}
        /\ Cardinality(ToolUses \ CursorMoves) <= 1
        /\ \A k \in ToolUses \ CursorMoves :
              /\ response_content[k].input["action"] = directive[2][KeyNextAction]
              /\ \A c \in CursorMoves : c < k

\* The comma removal of line 236 on its own: the candidate is the str held
\* by vlm_response_json, and the substitution is applied to it, then once
\* more to its own output.

MaxCandidateLen == 4

CandidateChars == {",", "}", "]", " ", "1"}

Candidates == UNION {[1..n -> CandidateChars] : n \in 0..MaxCandidateLen}

InitCommas ==
    /\ messages = <<TaskMessage>>
    /\ images_to_keep = None
    /\ messages_before = <<>>
    /\ step_count = 0
    /\ parsed_screen = Screen(<<>>)
    /\ vlm_response = <<>>
    /\ extracted \in Candidates
    /\ directive = JObj(<<>>)
    /\ vlm_response_json = JStr(extracted)
    /\ parse_calls = 0
    /\ used_default = FALSE
    /\ response_content = <<>>
    /\ outcome = NoOutcome
    /\ img_shown = "none"
    /\ pc = "candidate"
    /\ ProvidersIdle
    /\ DebugIdle

\* line 236
RemoveCommas ==
    /\ pc = "candidate"
    /\ vlm_response_json' = JStr(RemoveTrailingCommas(vlm_response_json[2], {"}", "]"}))
    /\ pc' = "cleaned"
    /\ UNCHANGED <<messages, images_to_keep, messages_before, step_count, parsed_screen,
                   vlm_response, extracted, directive, parse_calls, used_default,
                   response_content, outcome, img_shown>>
    /\ UNCHANGED providerVars
    /\ UNCHANGED debugVars

\* line 236 applied to its own output
RemoveCommasAgain ==
    /\ pc = "cleaned"
    /\ vlm_response_json' = JStr(RemoveTrailingCommas(vlm_response_json[2], {"}", "]"}))
    /\ pc' = "cleaned_again"
    /\ UNCHANGED <<messages, images_to_keep, messages_before, step_count, parsed_screen,
                   vlm_response, extracted, directive, parse_calls, used_default,
                   response_content, outcome, img_shown>>
    /\ UNCHANGED providerVars
    /\ UNCHANGED debugVars

NextCommas == RemoveCommas \/ RemoveCommasAgain

SpecCommas == InitCommas /\ [][NextCommas]_vars

\* C19: the removal of trailing commas is idempotent: applied to its own
\* output it changes nothing, for every candidate.
C19_CommaRemovalIdempotent ==
    [][(pc = "cleaned" /\ pc' = "cleaned_again")
          => vlm_response_json' = vlm_response_json]_vars

\* a comma to be removed that follows another comma (whitespace apart)
CommaRunBeforeCloser(s) ==
    \E i \in 1..Len(s) : \E j \in (i + 1)..Len(s) :
        /\ s[i] = ","
        /\ s[j] = ","
        /\ SkipWs(s, i + 1) = j
        /\ SkipWs(s, j + 1) <= Len(s)
        /\ s[SkipWs(s, j + 1)] \in {"}", "]"}

\* the second application changes nothing where no such run is in the
\* candidate
C19_IdempotentWithoutCommaRuns ==
    [][(pc = "cleaned" /\ pc' = "cleaned_again" /\ ~CommaRunBeforeCloser(extracted))
          => vlm_response_json' = vlm_response_json]_vars

\* The debug tool run on the response of a step: debug_json_parsing.py.

\* lines 55-68: the brace scan, and the whole string where it finds nothing;
\* method is the extraction method recorded in debug_info
DebugBraceScan(input_string) ==
    LET json_start == FindChar(input_string, 1, {"{"})
        e == IF json_start > Len(input_string) THEN 0
             ELSE BraceScan(input_string, json_start, 0)
    IN  IF e > 0
        THEN [content |-> strip(Slice(input_string, json_start, e)), method |-> 5]
        ELSE [content |-> strip(input_string), method |-> 6]

\* lines 45-52: the patterns from the n-th on, in the order of the list
RECURSIVE DebugPatterns(_, _, _)
DebugPatterns(n, input_string, data_type) ==
    IF n > 4 THEN DebugBraceScan(input_string)
    ELSE IF FirstMatch(n, input_string, data_type).ok
    THEN [content |-> strip(FirstMatch(n, input_string, data_type).text), method |-> n]
    ELSE DebugPatterns(n + 1, input_string, data_type)

\* lines 13-68: the content returned and the extraction method recorded
\* (the number of the pattern that matched, 5 for the brace scan, 6 for the
\* whole string, 0 for an empty input)
extract_data_debug(input_string, data_type) ==
    IF Len(input_string) = 0 THEN [content |-> <<>>, method |-> 0]
    ELSE DebugPatterns(1, input_string, data_type)

\* lines 102-115: the cleaning of the extracted content
DebugCleaned(extracted_json) ==
    LET c0 == strip(extracted_json)
        c1 == IF startswith(c0, Fence \o JsonType) THEN Slice(c0, 8, Len(c0)) ELSE c0
        c2 == IF startswith(c1, Fence) THEN Slice(c1, 4, Len(c1)) ELSE c1
        c3 == IF endswith(c2, Fence) THEN Slice(c2, 1, Len(c2) - 3) ELSE c2
    IN  RemoveTrailingCommas(strip(c3), {"}", "]"})

\* lines 124-142: the two parse attempts on the cleaned content
ParseAnalysis(extracted_json, cleaned_json) ==
    LET first == json_loads(cleaned_json)
        second == json_loads(OuterBraceSpan(RemoveTrailingCommas(cleaned_json, {"}"})))
    IN  IF first.ok THEN Analysis(TRUE, TRUE, extracted_json, first.val)
        ELSE IF second.ok THEN Analysis(TRUE, TRUE, extracted_json, second.val)
        ELSE Analysis(TRUE, FALSE, extracted_json, PyNone)

\* analyze_json_parsing_issues giving up after the first json.loads
analyze_json_parsing_issues_NoFix(extracted_json) ==
    LET first == json_loads(DebugCleaned(extracted_json))
    IN  IF Len(extracted_json) = 0 THEN NoAnalysis
        ELSE IF first.ok THEN Analysis(TRUE, TRUE, extracted_json, first.val)
        ELSE Analysis(TRUE, FALSE, extracted_json, PyNone)

\* lines 96-146: the fields of the analysis that tell of the extraction and
\* of the parse, from the content extract_data_debug returned
analyze_json_parsing_issues(extracted_json) ==
    IF Len(extracted_json) = 0 THEN NoAnalysis
    ELSE ParseAnalysis(extracted_json, DebugCleaned(extracted_json))

\* lines 71-97: the tool is run on the response text of the step
Analyze ==
    /\ pc = "done"
    /\ \E extracted_json \in {extract_data_debug(vlm_response, JsonType).content} :
          analysis' = analyze_json_parsing_issues(extracted_json)
    /\ pc' = "analyzed"
    /\ UNCHANGED <<messages, images_to_keep, messages_before, step_count, parsed_screen,
                   vlm_response, extracted, directive, vlm_response_json, parse_calls,
                   used_default, response_content, outcome, img_shown>>
    /\ UNCHANGED providerVars

NextDebug ==
    \/ \E text \in ResponseTexts : Call(text, Screen(<<>>))
    \/ Analyze

SpecDebug == Init /\ [][NextDebug]_vars

\* C20: on every response text the debug tool extracts the candidate the
\* agent step extracts, and it reports parsing success exactly when the
\* repair stage of the step parsed a value instead of substituting the
\* default response, and then with that same value.
C20_DebugToolAgrees ==
    pc = "analyzed" =>
        /\ analysis.extracted_content = extracted
        /\ analysis.parsing_success = ~used_default
        /\ analysis.parsing_success => analysis.json_object = directive

C20_Witness ==
    /\ pc = "analyzed"
    /\ analysis.parsing_success
    /\ parse_calls = 2
    /\ analysis.json_object = directive
    /\ analysis.extracted_content # vlm_response

\* the directive of the step is an object that carries no coordinate entry of
\* its own
PlainDirective ==
    /\ directive[1] = "obj"
    /\ KeyCoordinate \notin DOMAIN directive[2]

CoordinateAttached ==
    /\ vlm_response_json[1] = "obj"
    /\ KeyCoordinate \in DOMAIN vlm_response_json[2]

\* C21: a coordinate is attached, and a cursor move emitted, only when the
\* Box ID of the directive is an index i with 0 <= i < the number of screen
\* elements; any other Box ID, a negative one too, gives neither.
C21_CoordinateOnlyInRange ==
    (pc = "done" /\ PlainDirective /\ ~ValidBoxID(directive, parsed_screen)) =>
        /\ ~CoordinateAttached
        /\ MouseMoves = {}

\* the same with the indices list indexing accepts, -len..len-1
C21_CoordinateOnlyForAcceptedIndex ==
    (pc = "done" /\ PlainDirective /\ ~BoxResolved(directive, parsed_screen)) =>
        /\ ~CoordinateAttached
        /\ MouseMoves = {}

ValidObject(candidate) ==
    /\ json_loads(candidate).ok
    /\ json_loads(candidate).val[1] = "obj"

\* C22: where the extracted candidate is a valid JSON object as it stands,
\* the repair stage yields the object that parsing the candidate gives:
\* stripping and comma removal change no field value.
C22_ValidObjectUnchanged ==
    (pc = "done" /\ ValidObject(extracted)) =>
        /\ ~used_default
        /\ directive = json_loads(extracted).val

\* a comma whose next non-whitespace character is a closer; in a valid
\* object such a comma lies inside a string
CommaBeforeCloser(candidate) ==
    \E i \in 1..Len(candidate) :
        /\ candidate[i] = ","
        /\ SkipWs(candidate, i + 1) <= Len(candidate)
        /\ candidate[SkipWs(candidate, i + 1)] \in {"}", "]"}

\* the same for the valid objects none of whose strings holds such a comma
C22_UnchangedWithoutCommaInString ==
    (pc = "done" /\ ValidObject(extracted) /\ ~CommaBeforeCloser(extracted)) =>
        /\ ~used_default
        /\ directive = json_loads(extracted).val

\* C23: with only_n_most_recent_images = n, the messages handed to the
\* provider in a step hold at most n image items, over any sequence of steps
\* with the caller appending messages between them.
C23_ProviderImagesWithinKeep ==
    (pc = "done" /\ outcome.status = "returned" /\ images_to_keep # None) =>
        Cardinality(ImageIds(messages)) <= images_to_keep[1]

\* the n images kept of the history and the two screenshots of the step
C23_ProviderImagesWithinKeepPlusTwo ==
    (pc = "done" /\ outcome.status = "returned" /\ images_to_keep # None) =>
        /\ Cardinality(ImageIds(messages)) <= images_to_keep[1] + 2
        /\ StepScreenshots(step_count) \subseteq ImageIds(messages)

====
